---- MODULE Spec2Model ----
(***************************************************************************)
(* The persistent vector of persistent-vector/pvec_vanilla.c: a radix     *)
(* trie of fixed-width nodes under immutable headers (size, shift, root). *)
(* Memory is a heap of nodes addressed by positive integers; NULL is 0.   *)
(* A leaf slot holds an element (a non-zero integer), an internal slot    *)
(* the address of a child, as a slot's type follows from its depth.      *)
(***************************************************************************)
EXTENDS Integers, Sequences, FiniteSets, TLC

\* ------------------------------------------------------------------------
\* pvec.h
PVEC_BITS == 2

PVEC_BRANCHING == 2 ^ PVEC_BITS

PVEC_MASK == PVEC_BRANCHING - 1

\* ------------------------------------------------------------------------
\* Bounds of the exploration
MaxSize == 6

DeepSize == 33

MaxMarks == 1

MaxHits == 1

\* ------------------------------------------------------------------------
\* uint32_t arithmetic. TLC's integers are 32 bits wide and signed,
\* so a uint32_t value is held as the signed integer with the same 32 bits:
\* x itself below 2^31, and x - 2^32 from there on (2^32 - 1 is held as -1).
\* Sums and differences of such integers are the sums and differences
\* modulo 2^32 of the values they hold.
UINT32_MAX == -1

Add32(x, y) == x + y

Sub32(x, y) == x - y

\* x < y and x <= y between uint32_t values
Lt32(x, y) ==
  IF (x >= 0) = (y >= 0) THEN x < y ELSE x >= 0

Le32(x, y) == x = y \/ Lt32(x, y)

\* x << s, for the shifts a trie of 32-bit indices has
Shl(x, s) == x * (2 ^ s)

\* x >> s, filling with zero bits
Shr(x, s) ==
  IF x >= 0 \/ s = 0 THEN x \div (2 ^ s)
  ELSE (((x \div 2) + 2 ^ 30) + 2 ^ 30) \div (2 ^ (s - 1))

\* x & y for a mask y >= 0: \div and % round down, as two's complement does
RECURSIVE BitAnd(_, _)
BitAnd(x, y) ==
  IF x = 0 \/ y = 0 THEN 0
  ELSE (x % 2) * (y % 2) + 2 * BitAnd(x \div 2, y \div 2)

\* ------------------------------------------------------------------------
\* Nodes, headers and the allocator
NULL == 0

\* the address of the static EMPTY_NODE
EMPTY_NODE == 1

ZeroNode == [k \in 0..PVEC_MASK |-> NULL]

EMPTY_VECTOR == [size |-> 0, shift |-> 0, root |-> EMPTY_NODE]

\* PVEC_MALLOC hands out a cell that is not in use: the lowest free address
Alloc(h) ==
  CHOOSE n \in 1..(Cardinality(DOMAIN h) + 1) :
    n \notin DOMAIN h /\ \A m \in 1..(n - 1) : m \in DOMAIN h

\* node_create: a fresh zeroed node; the result carries the new heap
node_create(h) ==
  LET new == Alloc(h)
  IN  [heap |-> [n \in DOMAIN h \cup {new} |-> IF n = new THEN ZeroNode ELSE h[n]],
       node |-> new]

\* node_clone: a fresh node with the slots of node (node is not NULL)
node_clone(h, node) ==
  LET clone == Alloc(h)
  IN  [heap |-> [n \in DOMAIN h \cup {clone} |-> IF n = clone THEN h[node] ELSE h[n]],
       node |-> clone]

\* node->child[k] = v
Store(h, node, k, v) == [h EXCEPT ![node][k] = v]

\* the outcome of a call: the heap it leaves, whether it dereferenced NULL,
\* the header it returns, the slots it cleared as <<level, slot>> pairs, and
\* the number of its writes behind a node that landed in another node
Outcome(h, crashed, hdr, cleared) ==
  [heap |-> h, segv |-> crashed, res |-> hdr, writes |-> cleared, hits |-> 0]

Segv(h) == Outcome(h, TRUE, EMPTY_VECTOR, {})

pvec_create == EMPTY_VECTOR

pvec_count(pvec) == pvec.size

\* ------------------------------------------------------------------------
\* pvec_nth
RECURSIVE nth_walk(_, _, _, _)
nth_walk(h, node, s, index) ==
  IF node = NULL THEN [segv |-> TRUE, val |-> NULL]
  ELSE IF s > 0
    THEN nth_walk(h, h[node][BitAnd(Shr(index, s), PVEC_MASK)], s - PVEC_BITS, index)
    ELSE [segv |-> FALSE, val |-> h[node][BitAnd(index, PVEC_MASK)]]

pvec_nth(h, pvec, index) == nth_walk(h, pvec.root, pvec.shift, index)

pvec_peek(h, pvec) == pvec_nth(h, pvec, Sub32(pvec_count(pvec), 1))

\* ------------------------------------------------------------------------
\* pvec_update
RECURSIVE update_walk(_, _, _, _, _)
update_walk(h, node, s, index, elt) ==
  IF s > 0
    THEN LET subindex == BitAnd(Shr(index, s), PVEC_MASK)
             child == h[node][subindex]
         IN  IF child = NULL THEN [heap |-> h, segv |-> TRUE]
             ELSE LET nc == node_clone(h, child)
                  IN  update_walk(Store(nc.heap, node, subindex, nc.node),
                                  nc.node, s - PVEC_BITS, index, elt)
    ELSE [heap |-> Store(h, node, BitAnd(index, PVEC_MASK), elt), segv |-> FALSE]

pvec_update(h, pvec, index, elt) ==
  IF pvec.root = NULL THEN Segv(h)
  ELSE LET rc == node_clone(h, pvec.root)
           w == update_walk(rc.heap, rc.node, pvec.shift, index, elt)
       IN  Outcome(w.heap, w.segv,
                   [size |-> pvec.size, shift |-> pvec.shift, root |-> rc.node], {})

\* ------------------------------------------------------------------------
\* pvec_push
\* the d_full(P) check
d_full(pvec) == pvec_count(pvec) = Shl(PVEC_BRANCHING, pvec.shift)

RECURSIVE push_walk(_, _, _, _, _)
push_walk(h, node, s, index, elt) ==
  IF s > 0
    THEN LET subindex == BitAnd(Shr(index, s), PVEC_MASK)
             child == h[node][subindex]
             nc == IF child = NULL THEN node_create(h) ELSE node_clone(h, child)
         IN  push_walk(Store(nc.heap, node, subindex, nc.node),
                       nc.node, s - PVEC_BITS, index, elt)
    ELSE Store(h, node, BitAnd(index, PVEC_MASK), elt)

pvec_push(h, pvec, elt) ==
  LET index == pvec_count(pvec)
      size1 == Add32(pvec.size, 1)
  IN  IF d_full(pvec)
        THEN LET nr == node_create(h)
                 h1 == Store(nr.heap, nr.node, 0, pvec.root)
                 shift1 == pvec.shift + PVEC_BITS
             IN  Outcome(push_walk(h1, nr.node, shift1, index, elt), FALSE,
                         [size |-> size1, shift |-> shift1, root |-> nr.node], {})
        ELSE IF pvec.root = NULL THEN Segv(h)
        ELSE LET rc == node_clone(h, pvec.root)
             IN  Outcome(push_walk(rc.heap, rc.node, pvec.shift, index, elt), FALSE,
                         [size |-> size1, shift |-> pvec.shift, root |-> rc.node], {})

\* ------------------------------------------------------------------------
\* pvec_pop
\* the test that decides that the subtree under the current slot is evicted
evicts(index, s) == BitAnd(index, Sub32(Shl(2 * PVEC_BITS, s), 1)) = 0

\* a root-collapse test that compares the size before the decrement
pop_collapses_late(pvec, size1) == pvec_count(pvec) = Shl(1, pvec.shift) /\ pvec.shift > 0

\* the root-collapse test of pvec_pop
pop_collapses(pvec, size1) == size1 = Shl(1, pvec.shift) /\ pvec.shift > 0

RECURSIVE pop_walk(_, _, _, _)
pop_walk(h, node, s, index) ==
  IF s > 0
    THEN LET subindex == BitAnd(Shr(index, s), PVEC_MASK)
             child == h[node][subindex]
         IN  IF evicts(index, s)
               THEN [heap |-> Store(h, node, subindex, NULL), segv |-> FALSE,
                     writes |-> {<<s, subindex>>}]
             ELSE IF child = NULL THEN [heap |-> h, segv |-> TRUE, writes |-> {}]
             ELSE LET nc == node_clone(h, child)
                  IN  pop_walk(Store(nc.heap, node, subindex, nc.node),
                               nc.node, s - PVEC_BITS, index)
    ELSE [heap |-> Store(h, node, BitAnd(index, PVEC_MASK), NULL), segv |-> FALSE,
          writes |-> {<<0, BitAnd(index, PVEC_MASK)>>}]

pvec_pop(h, pvec) ==
  LET index == Sub32(pvec_count(pvec), 1)
      size1 == Sub32(pvec_count(pvec), 1)
  IN  IF pvec.root = NULL THEN Segv(h)
      ELSE IF pop_collapses(pvec, size1)
        THEN Outcome(h, FALSE,
                     [size |-> size1, shift |-> pvec.shift - PVEC_BITS,
                      root |-> h[pvec.root][0]], {})
        ELSE LET rc == node_clone(h, pvec.root)
                 w == pop_walk(rc.heap, rc.node, pvec.shift, index)
             IN  Outcome(w.heap, w.segv,
                         [size |-> size1, shift |-> pvec.shift, root |-> rc.node],
                         w.writes)

\* ------------------------------------------------------------------------
\* pvec_right_slice
\* memset(&node->child[from], 0, count * sizeof(Node *)): the slots from ..
\* from + count - 1 are zeroed. A slot past PVEC_MASK lies in the memory
\* behind the node: in the node adj that the allocator placed there, or,
\* with adj = NULL, in padding or unused memory.
memset(h, node, from, count, adj) ==
  [n \in DOMAIN h |->
     IF n = node
       THEN [k \in 0..PVEC_MASK |->
               IF k >= from /\ k < from + count THEN NULL ELSE h[n][k]]
     ELSE IF n = adj
       THEN [k \in 0..PVEC_MASK |->
               IF k + PVEC_BRANCHING >= from /\ k + PVEC_BRANCHING < from + count
                 THEN NULL ELSE h[n][k]]
     ELSE h[n]]

\* what may lie behind a heap node: nothing that matters, or another heap
\* node (EMPTY_NODE is static data, not a heap cell); budget is the number of
\* overruns that may still land in another node
Adjacent(h, node, budget) ==
  {NULL} \cup (IF budget > 0 THEN DOMAIN h \ {node, EMPTY_NODE} ELSE {})

Hit(adj) == IF adj = NULL THEN 0 ELSE 1

Zeroed(s, from, count) == {<<s, k>> : k \in from..(from + count - 1)}

\* the number of slots the non-evicting memsets clear
suffix_count(subindex) == Sub32(PVEC_BRANCHING, Sub32(subindex, 1))

RECURSIVE slice_walk(_, _, _, _, _)
slice_walk(h, node, s, index, budget) ==
  IF s > 0
    THEN LET subindex == BitAnd(Shr(index, s), PVEC_MASK)
             child == h[node][subindex]
         IN  IF evicts(index, s)
               THEN LET count == Sub32(PVEC_BRANCHING, subindex)
                    IN  {[heap |-> memset(h, node, subindex, count, NULL),
                          segv |-> FALSE, writes |-> Zeroed(s, subindex, count),
                          hits |-> 0]}
             ELSE IF child = NULL
               THEN {[heap |-> h, segv |-> TRUE, writes |-> {}, hits |-> 0]}
             ELSE LET nc == node_clone(h, child)
                      h1 == Store(nc.heap, node, subindex, nc.node)
                      count == suffix_count(subindex)
                  IN  UNION {
                        {[o EXCEPT !.writes = @ \cup Zeroed(s, subindex + 1, count),
                                   !.hits = @ + Hit(adj)] :
                           o \in slice_walk(memset(h1, node, subindex + 1, count, adj),
                                            nc.node, s - PVEC_BITS, index,
                                            budget - Hit(adj))} :
                        adj \in Adjacent(h1, node, budget)}
    ELSE LET subindex == BitAnd(index, PVEC_MASK)
             count == suffix_count(subindex)
         IN  {[heap |-> memset(h, node, subindex + 1, count, adj), segv |-> FALSE,
               writes |-> Zeroed(0, subindex + 1, count), hits |-> Hit(adj)] :
                adj \in Adjacent(h, node, budget)}

\* a loop test that stops one level early, at index = 1 << shift
cut_level_strict(index, shift) == Lt32(index, Shl(1, shift)) /\ shift > 0

\* the test of the loop that cuts levels off the top of the tree
cut_level(index, shift) == Le32(index, Shl(1, shift)) /\ shift > 0

\* the loop that cuts the tree until the height is minimal; root = NULL with
\* segv set when the loop reads through a NULL root
RECURSIVE cut_tree(_, _, _, _)
cut_tree(h, size, shift, root) ==
  IF cut_level(size, shift)
    THEN IF root = NULL THEN [shift |-> shift, root |-> NULL, segv |-> TRUE]
         ELSE cut_tree(h, size, shift - PVEC_BITS, h[root][0])
    ELSE [shift |-> shift, root |-> root, segv |-> FALSE]

\* the set of outcomes of pvec_right_slice, one for each layout of the heap
pvec_right_slice(h, pvec, new_size, budget) ==
  LET index == new_size
      cut == cut_tree(h, new_size, pvec.shift, pvec.root)
      hdr == [size |-> new_size, shift |-> cut.shift, root |-> cut.root]
  IN  IF cut.segv THEN {Segv(h)}
      ELSE IF d_full(hdr) THEN {Outcome(h, FALSE, hdr, {})}
      ELSE IF cut.root = NULL THEN {Segv(h)}
      ELSE LET rc == node_clone(h, cut.root)
           IN  {[Outcome(w.heap, w.segv, [hdr EXCEPT !.root = rc.node], w.writes)
                   EXCEPT !.hits = w.hits] :
                  w \in slice_walk(rc.heap, rc.node, cut.shift, index, budget)}

\* ------------------------------------------------------------------------
\* The driver: a current vector p as in main, the version q that p was made
\* from, the oracle lists kept beside them, and a record of the last call
VARIABLES heap, vecs, oracle, last, hits

vars == <<heap, vecs, oracle, last, hits>>

Slots == {"p", "q"}

\* the element main pushes at an index, and the element updates write
ElemAt(index) == index + 1

Mark == 100

\* The nodes the headers of the program reach, each with its level, in the
\* order of a walk from p and then from q
Seen(order) == {order[i][1] : i \in 1..Len(order)}

RECURSIVE Visit(_, _, _, _, _)
Visit(h, node, s, k, order) ==
  IF k = -1
    THEN IF node = NULL \/ node \in Seen(order) THEN order
         ELSE Visit(h, node, s, 0, Append(order, <<node, s>>))
  ELSE IF s = 0 \/ k > PVEC_MASK THEN order
  ELSE Visit(h, node, s, k + 1, Visit(h, h[node][k], s - PVEC_BITS, -1, order))

Live(h, vs) ==
  Visit(h, vs["q"].root, vs["q"].shift, -1,
        Visit(h, vs["p"].root, vs["p"].shift, -1, <<<<EMPTY_NODE, 0>>>>))

\* The collector reclaims the nodes that no header of the program reaches.
\* The program never compares or computes with addresses, so states are kept
\* up to a renaming of the heap addresses: the live nodes are numbered in
\* the order of the walk.
Renamed(order, node) ==
  IF node = NULL THEN NULL ELSE CHOOSE i \in 1..Len(order) : order[i][1] = node

Collect(h, vs) ==
  LET order == Live(h, vs)
  IN  [heap |-> [i \in 1..Len(order) |->
                   IF order[i][2] > 0
                     THEN [k \in 0..PVEC_MASK |-> Renamed(order, h[order[i][1]][k])]
                     ELSE h[order[i][1]]],
       vecs |-> [v \in Slots |-> [vs[v] EXCEPT !.root = Renamed(order, vs[v].root)]]]

NoCall ==
  [op |-> "none", pre |-> EMPTY_VECTOR, arg |-> 0, elt |-> NULL, valid |-> TRUE,
   res |-> EMPTY_VECTOR, returned |-> FALSE, ret |-> NULL, segv |-> FALSE,
   writes |-> {}, allocs |-> 0, alone |-> FALSE]

Init ==
  /\ heap = [n \in {EMPTY_NODE} |-> ZeroNode]
  /\ vecs = [v \in Slots |-> pvec_create]
  /\ oracle = [v \in Slots |-> <<>>]
  /\ last = NoCall
  /\ hits = 0

\* q = p: the version that q held before is dropped, and its nodes with it
Kept == Collect(heap, [p |-> vecs["p"], q |-> vecs["p"]])

\* p = op(q) returned out. A call that died leaves the process dead.
Return(kept, out, list, call) ==
  LET gc == Collect(out.heap, [p |-> out.res, q |-> kept.vecs["q"]])
  IN  IF out.segv
        THEN /\ last' = [call EXCEPT !.segv = TRUE]
             /\ UNCHANGED <<heap, vecs, oracle, hits>>
        ELSE /\ heap' = gc.heap
             /\ vecs' = gc.vecs
             /\ oracle' = [p |-> list, q |-> oracle["p"]]
             /\ hits' = hits + out.hits
             /\ last' = [call EXCEPT !.pre = gc.vecs["q"], !.res = gc.vecs["p"],
                                     !.returned = TRUE, !.writes = out.writes,
                                     !.allocs = Cardinality(DOMAIN out.heap)
                                                  - Cardinality(DOMAIN kept.heap)]

Call(name, pvec, index, e, ok) ==
  [NoCall EXCEPT !.op = name, !.pre = pvec, !.arg = index, !.elt = e, !.valid = ok]

Marked(list) == Cardinality({k \in 1..Len(list) : list[k] = Mark})

\* q = p; p = pvec_create()
Create ==
  /\ ~last.segv
  /\ LET kept == Kept
     IN  Return(kept, Outcome(kept.heap, FALSE, pvec_create, {}), <<>>,
                Call("create", kept.vecs["p"], 0, NULL, TRUE))

\* q = p; p = pvec_push(q, e)
Push(max) ==
  /\ ~last.segv
  /\ vecs["p"].size < max
  /\ LET kept == Kept
         e == ElemAt(vecs["p"].size)
     IN  Return(kept, pvec_push(kept.heap, kept.vecs["p"], e), Append(oracle["p"], e),
                Call("push", kept.vecs["p"], vecs["p"].size, e, TRUE))

\* q = p; p = pvec_update(q, index, Mark), while fewer than marks elements
\* of the vector are marked
Update(marks) ==
  /\ ~last.segv
  /\ Marked(oracle["p"]) < marks
  /\ \E index \in 0..(vecs["p"].size - 1) :
       LET kept == Kept
       IN  Return(kept, pvec_update(kept.heap, kept.vecs["p"], index, Mark),
                  [oracle["p"] EXCEPT ![index + 1] = Mark],
                  Call("update", kept.vecs["p"], index, Mark, TRUE))

\* q = p; p = pvec_update(q, index, e) at the first or the last index, with
\* the element that main stores there
Touch ==
  /\ ~last.segv
  /\ \E index \in {0, vecs["p"].size - 1} :
       /\ index >= 0
       /\ LET kept == Kept
          IN  Return(kept, pvec_update(kept.heap, kept.vecs["p"], index, ElemAt(index)),
                     [oracle["p"] EXCEPT ![index + 1] = ElemAt(index)],
                     Call("update", kept.vecs["p"], index, ElemAt(index), TRUE))

\* q = p; p = pvec_pop(q)
Pop ==
  /\ ~last.segv
  /\ vecs["p"].size >= 1
  /\ LET kept == Kept
     IN  Return(kept, pvec_pop(kept.heap, kept.vecs["p"]),
                SubSeq(oracle["p"], 1, Len(oracle["p"]) - 1),
                Call("pop", kept.vecs["p"], 0, NULL, TRUE))

\* q = p; p = pvec_right_slice(q, n)
RightSlice(budget) ==
  /\ ~last.segv
  /\ \E n \in 0..vecs["p"].size :
       LET kept == Kept
       IN  \E out \in pvec_right_slice(kept.heap, kept.vecs["p"], n, budget - hits) :
             Return(kept, out, SubSeq(oracle["p"], 1, n),
                    Call("right_slice", kept.vecs["p"], n, NULL, TRUE))

Next ==
  \/ Create
  \/ Push(MaxSize)
  \/ Update(MaxMarks)
  \/ Pop
  \/ RightSlice(MaxHits)

\* ------------------------------------------------------------------------
\* Calls outside the contract of pvec.h. The driver reads what such a call
\* returns and drops it: p and q stay as they are.
\* The indices read: the last one, the first one past the size, one a node
\* further, and the first one past the capacity of the trie
Probes(pvec) ==
  {Sub32(pvec.size, 1), pvec.size, Add32(pvec.size, PVEC_BRANCHING),
   Shl(PVEC_BRANCHING, pvec.shift)}

\* pvec_nth(p, index)
Nth ==
  /\ ~last.segv
  /\ \E index \in Probes(vecs["p"]) :
       LET r == pvec_nth(heap, vecs["p"], index)
       IN  last' = [Call("nth", vecs["p"], index, NULL, Lt32(index, vecs["p"].size))
                      EXCEPT !.ret = r.val, !.returned = ~r.segv, !.segv = r.segv]
  /\ UNCHANGED <<heap, vecs, oracle, hits>>

\* pvec_peek(p)
Peek ==
  /\ ~last.segv
  /\ LET r == pvec_peek(heap, vecs["p"])
     IN  last' = [Call("peek", vecs["p"], 0, NULL, vecs["p"].size >= 1)
                    EXCEPT !.ret = r.val, !.returned = ~r.segv, !.segv = r.segv]
  /\ UNCHANGED <<heap, vecs, oracle, hits>>

\* pvec_pop(p) with p empty
PopEmpty ==
  /\ ~last.segv
  /\ vecs["p"].size = 0
  /\ LET out == pvec_pop(heap, vecs["p"])
     IN  last' = [Call("pop", vecs["p"], 0, NULL, FALSE)
                    EXCEPT !.res = out.res, !.returned = ~out.segv, !.segv = out.segv,
                           !.writes = out.writes]
  /\ UNCHANGED <<heap, vecs, oracle, hits>>

\* pvec_update(p, index, Mark) with index not below the size
UpdateOut ==
  /\ ~last.segv
  /\ \E index \in Probes(vecs["p"]) :
       /\ ~Lt32(index, vecs["p"].size)
       /\ LET out == pvec_update(heap, vecs["p"], index, Mark)
          IN  last' = [Call("update", vecs["p"], index, Mark, FALSE)
                         EXCEPT !.res = out.res, !.returned = ~out.segv,
                                !.segv = out.segv]
  /\ UNCHANGED <<heap, vecs, oracle, hits>>

NextMisuse ==
  \/ Next
  \/ Nth
  \/ Peek
  \/ PopEmpty
  \/ UpdateOut

SpecMisuse == Init /\ [][NextMisuse]_vars

\* The run of main on a build whose allocator leaves room behind a node
\* (GC_MALLOC with its extra byte rounds a node up to the next granule): no
\* write behind a node lands in another node.
NextDeep ==
  \/ Create
  \/ Push(DeepSize)
  \/ Touch
  \/ Pop
  \/ RightSlice(0)

SpecDeep == Init /\ [][NextDeep]_vars

Spec == Init /\ [][Next]_vars

\* ------------------------------------------------------------------------
\* Two vectors side by side: p and q start as one version, Split pops p and
\* slices q by one element, and every call after that is made on both with
\* the same arguments. The build is the one of SpecDeep: no write behind a
\* node lands in another node.
PairSize == 9

\* the outcomes of one call, one for each layout of the heap
Outs(name, h, pvec, arg, e, budget) ==
  CASE name = "push" -> {pvec_push(h, pvec, e)}
    [] name = "update" -> {pvec_update(h, pvec, arg, e)}
    [] name = "pop" -> {pvec_pop(h, pvec)}
    [] name = "right_slice" -> pvec_right_slice(h, pvec, arg, budget)

\* p = nameP(p, argP, e); q = nameQ(q, argQ, e). While p and q are the very
\* same header, the same call on both is one call.
Pair(nameP, argP, nameQ, argQ, e, list) ==
  \E a \in Outs(nameP, heap, vecs["p"], argP, e, 0) :
    \E b \in (IF vecs["p"] = vecs["q"] /\ nameP = nameQ /\ argP = argQ
               THEN {a}
               ELSE Outs(nameQ, a.heap, vecs["q"], argQ, e, 0)) :
      LET call == Call(nameP, vecs["p"], argP, e, TRUE)
          gc == Collect(b.heap, [p |-> a.res, q |-> b.res])
      IN  IF a.segv \/ b.segv
            THEN /\ last' = [call EXCEPT !.segv = TRUE, !.alone = (a.segv # b.segv)]
                 /\ UNCHANGED <<heap, vecs, oracle, hits>>
            ELSE /\ heap' = gc.heap
                 /\ vecs' = gc.vecs
                 /\ oracle' = [v \in Slots |-> list]
                 /\ hits' = hits
                 /\ last' = [call EXCEPT !.res = gc.vecs["p"], !.returned = TRUE]

Agree(m) == vecs["p"].size = vecs["q"].size /\ vecs["p"].size >= m

BothPush ==
  /\ ~last.segv
  /\ Agree(0)
  /\ vecs["p"].size < PairSize
  /\ LET e == ElemAt(vecs["p"].size)
     IN  Pair("push", 0, "push", 0, e, Append(oracle["p"], e))

BothUpdate ==
  /\ ~last.segv
  /\ Agree(1)
  /\ Marked(oracle["p"]) < MaxMarks
  /\ \E index \in 0..(vecs["p"].size - 1) :
       Pair("update", index, "update", index, Mark,
            [oracle["p"] EXCEPT ![index + 1] = Mark])

BothPop ==
  /\ ~last.segv
  /\ Agree(1)
  /\ Pair("pop", 0, "pop", 0, NULL, SubSeq(oracle["p"], 1, Len(oracle["p"]) - 1))

BothRightSlice ==
  /\ ~last.segv
  /\ Agree(0)
  /\ \E n \in 0..vecs["p"].size :
       Pair("right_slice", n, "right_slice", n, NULL, SubSeq(oracle["p"], 1, n))

\* p = pvec_pop(V); q = pvec_right_slice(V, size - 1)
Split ==
  /\ ~last.segv
  /\ vecs["p"] = vecs["q"]
  /\ vecs["p"].size >= 1
  /\ Pair("pop", 0, "right_slice", Sub32(vecs["p"].size, 1), NULL,
          SubSeq(oracle["p"], 1, Len(oracle["p"]) - 1))

NextPair ==
  \/ BothPush
  \/ BothUpdate
  \/ BothPop
  \/ BothRightSlice
  \/ Split

SpecPair == Init /\ [][NextPair]_vars

\* ------------------------------------------------------------------------
\* What a caller observes of a version, and what the heap holds under it
Contents(h, pvec) == [i \in 0..(pvec.size - 1) |-> pvec_nth(h, pvec, i)]

Value(v) == [segv |-> FALSE, val |-> v]

\* the slots under a node, level by level, with addresses left out
RECURSIVE Tree(_, _, _)
Tree(h, node, s) ==
  IF node = NULL THEN <<>>
  ELSE IF s = 0 THEN <<h[node]>>
  ELSE <<[k \in 0..PVEC_MASK |-> Tree(h, h[node][k], s - PVEC_BITS)]>>

\* the leaf slot of the in-order position pos, NULL where the path has no node
RECURSIVE SlotAt(_, _, _, _)
SlotAt(h, node, s, pos) ==
  IF node = NULL THEN NULL
  ELSE IF s > 0
    THEN SlotAt(h, h[node][BitAnd(Shr(pos, s), PVEC_MASK)], s - PVEC_BITS, pos)
    ELSE h[node][BitAnd(pos, PVEC_MASK)]

Capacity(pvec) == Shl(PVEC_BRANCHING, pvec.shift)

\* the internal nodes a header reaches
InternalNodes(h, pvec) ==
  LET order == Visit(h, pvec.root, pvec.shift, -1, <<>>)
  IN  {order[i][1] : i \in {j \in 1..Len(order) : order[j][2] > 0}}

Returned(name) == last.op = name /\ last.returned /\ last.valid

\* ------------------------------------------------------------------------
\* C1: every call within the contract returns a version, and every version
\* has the size of its oracle list and holds the oracle's element at every
\* index below its size.
C1_OracleAgreement ==
  /\ last.valid => ~last.segv
  /\ \A v \in Slots :
       /\ pvec_count(vecs[v]) = Len(oracle[v])
       /\ \A i \in 0..(Len(oracle[v]) - 1) :
            pvec_nth(heap, vecs[v], i) = Value(oracle[v][i + 1])

\* C2: an operation leaves the version it was given as it was: the same
\* count, the same element at every index, and no node under it written;
\* the sentinel node of the empty vector is never written either.
C2_Persistence ==
  [][(last'.returned /\ last'.valid /\ last'.op \notin {"nth", "peek"})
       => /\ vecs'["q"].size = vecs["p"].size
          /\ vecs'["q"].shift = vecs["p"].shift
          /\ Contents(heap', vecs'["q"]) = Contents(heap, vecs["p"])
          /\ Tree(heap', vecs'["q"].root, vecs'["q"].shift)
               = Tree(heap, vecs["p"].root, vecs["p"].shift)
          /\ heap'[EMPTY_NODE] = ZeroNode]_vars

\* C3: pop and peek on an empty version report Empty: pop returns no header
\* (in particular none whose size wrapped to 2^32 - 1), peek returns no slot
\* value, and neither crashes.
C3_EmptyReported ==
  (last.op \in {"pop", "peek"} /\ last.pre.size = 0)
    => /\ ~last.returned
       /\ ~last.segv
       /\ last.res.size # UINT32_MAX

\* C4: nth and update at an index not below the size fail with
\* IndexOutOfRange: they follow no NULL child, nth hands back no element,
\* and update returns no version.
C4_IndexChecked ==
  (last.op \in {"nth", "update"} /\ ~Lt32(last.arg, last.pre.size))
    => /\ ~last.segv
       /\ last.op = "nth" => last.ret = NULL
       /\ last.op = "update" => ~last.returned

\* C5: pop(push(V, e)) has the size, the shift and the element at every
\* index below the size that V has.
C5_PushPopRoundTrip ==
  \A e \in {ElemAt(vecs["p"].size), Mark} :
    LET V == vecs["p"]
        pushed == pvec_push(heap, V, e)
        popped == pvec_pop(pushed.heap, pushed.res)
    IN  /\ ~pushed.segv
        /\ ~popped.segv
        /\ popped.res.size = V.size
        /\ popped.res.shift = V.shift
        /\ Contents(popped.heap, popped.res) = Contents(heap, V)

\* C6: in every version each leaf slot at an in-order position from the
\* size up to the capacity is empty; so is slot n after right_slice(V, n).
C6_OccupiedBelowSize ==
  \A v \in Slots :
    \A pos \in vecs[v].size..(Capacity(vecs[v]) - 1) :
      SlotAt(heap, vecs[v].root, vecs[v].shift, pos) = NULL

\* C7: no version reaches an internal node all of whose child slots are
\* empty.
C7_NoEmptyInternalNode ==
  \A v \in Slots :
    \A node \in InternalNodes(heap, vecs[v]) : heap[node] # ZeroNode

\* C8: every version with size >= 1 has (1 << shift) < size <= (B << shift),
\* and the version of size 0 has shift 0.
C8_ShapeAsStated ==
  \A v \in Slots :
    IF vecs[v].size = 0 THEN vecs[v].shift = 0
    ELSE /\ Shl(1, vecs[v].shift) < vecs[v].size
         /\ vecs[v].size <= Capacity(vecs[v])

\* C8, amended: every version with size >= 1 has size <= (B << shift), and
\* (1 << shift) < size when shift > 0; the version of size 0 has shift 0.
C8_Shape ==
  \A v \in Slots :
    IF vecs[v].size = 0 THEN vecs[v].shift = 0
    ELSE /\ vecs[v].shift > 0 => Shl(1, vecs[v].shift) < vecs[v].size
         /\ vecs[v].size <= Capacity(vecs[v])
         /\ vecs[v].shift % PVEC_BITS = 0

\* a slice has cut the tree down to a single leaf holding a single element
C8_Witness ==
  /\ Returned("right_slice")
  /\ last.pre.shift > 0
  /\ vecs["p"].size = 1
  /\ vecs["p"].shift = 0

\* C9: right_slice clears slots of the node it is in only: at each level
\* the slots above the path's slot (from the path's slot on where the
\* subtree leaves the result), and never a slot at or past B.
C9_ClearsInsideNode ==
  last.op = "right_slice" =>
    \A w \in last.writes :
      /\ w[2] <= PVEC_MASK
      /\ w[2] >= BitAnd(Shr(last.arg, w[1]), PVEC_MASK)

\* C10: push raises the shift by b exactly when size = B << shift; update
\* keeps size and shift; pop lowers the shift by b exactly when
\* size - 1 = 1 << shift and shift > 0, and the new root is then child 0 of
\* the old root; right_slice never raises the shift and lowers it by a
\* multiple of b.
C10_HeightTransitions ==
  LET V == last.pre
      R == last.res
  IN  /\ Returned("push") =>
            /\ R.size = V.size + 1
            /\ R.shift = IF V.size = Shl(PVEC_BRANCHING, V.shift)
                           THEN V.shift + PVEC_BITS ELSE V.shift
      /\ Returned("update") => (R.size = V.size /\ R.shift = V.shift)
      /\ Returned("pop") =>
            /\ R.size = V.size - 1
            /\ IF V.size - 1 = Shl(1, V.shift) /\ V.shift > 0
                 THEN R.shift = V.shift - PVEC_BITS /\ R.root = heap[V.root][0]
                 ELSE R.shift = V.shift
      /\ Returned("right_slice") =>
            /\ R.size = last.arg
            /\ R.shift <= V.shift
            /\ (V.shift - R.shift) % PVEC_BITS = 0

\* a pop has collapsed the root of a tree of three levels, and the version
\* it returned has child 0 of the old root as its root
C10_Witness ==
  /\ Returned("pop")
  /\ last.pre.shift = 2 * PVEC_BITS
  /\ last.res.shift = PVEC_BITS
  /\ last.res.root = heap[last.pre.root][0]

\* ------------------------------------------------------------------------
\* The nodes a header reaches, and the path of an index under it
Nodes(h, pvec) == Seen(Visit(h, pvec.root, pvec.shift, -1, <<>>))

\* the slot of a node of level s that the path of index goes through
Digit(index, s) == BitAnd(Shr(index, s), PVEC_MASK)

\* the node of level s on the path of index, NULL where the path has none
RECURSIVE PathNode(_, _, _, _, _)
PathNode(h, node, from, index, s) ==
  IF node = NULL \/ from = s THEN node
  ELSE PathNode(h, h[node][Digit(index, from)], from - PVEC_BITS, index, s)

NodeAt(h, pvec, index, s) ==
  IF s > pvec.shift \/ ~Lt32(index, Capacity(pvec)) THEN NULL
  ELSE PathNode(h, pvec.root, pvec.shift, index, s)

Levels(pvec) == {s \in 0..pvec.shift : s % PVEC_BITS = 0}

\* the index a call works at: the one it writes, removes or cuts at
Affected ==
  CASE last.op = "push" -> last.pre.size
    [] last.op = "pop" -> Sub32(last.pre.size, 1)
    [] OTHER -> last.arg

\* C11: a call allocates at most one node for each level of the version it
\* returns; every node of that version is a node of the version it was
\* given or lies on the path of the affected index; and a slot of such a
\* new node that is off the path, and that the call does not clear, holds
\* what the same slot of the node it was cloned from holds.
C11_StructuralSharing ==
  (last.returned /\ last.valid
     /\ last.op \in {"push", "update", "pop", "right_slice"}) =>
    LET V == vecs["q"]
        R == vecs["p"]
        new == Nodes(heap, R) \ (Nodes(heap, V) \cup {EMPTY_NODE})
    IN  /\ last.allocs <= (R.shift \div PVEC_BITS) + 1
        /\ Cardinality(new) <= last.allocs
        /\ new \subseteq {NodeAt(heap, R, Affected, s) : s \in Levels(R)}
        /\ \A s \in Levels(R) :
             LET clone == NodeAt(heap, R, Affected, s)
                 node == NodeAt(heap, V, Affected, s)
             IN  (clone \in new /\ node # NULL) =>
                   \A k \in 0..PVEC_MASK :
                     (IF last.op = "right_slice" THEN k < Digit(Affected, s)
                                                 ELSE k # Digit(Affected, s))
                       => heap[clone][k] = heap[node][k]

\* C12: pvec_pop(V) and pvec_right_slice(V, size - 1) have the same size,
\* the same shift and the same element at every index below the size, and
\* so have the versions that the same later calls make of them; neither
\* crashes where the other returns.
C12_PopIsSliceByOne ==
  /\ ~last.alone
  /\ vecs["p"].size = vecs["q"].size
  /\ vecs["p"].shift = vecs["q"].shift
  /\ Contents(heap, vecs["p"]) = Contents(heap, vecs["q"])

====
